---- MODULE Spec2Model ----
(***************************************************************************)
(* Peer telemetry exchange of CybSDK_Python_DataDemo/test.py: the          *)
(* telemetry publisher thread (tl_sender), the telemetry receiver thread   *)
(* (tl_receiver) with its peer table (num_cli, neworexi, spawn,            *)
(* cli_vehicle), and the shutdown path of game_loop.                       *)
(*                                                                         *)
(* Python lists are modelled as functions over 0..Capacity-1, so indices   *)
(* are the source's indices.  Doubles are modelled as integers; angles are *)
(* fixed-point (radians and degrees scaled by 10^3).                       *)
(***************************************************************************)
EXTENDS Integers, Sequences, FiniteSets, TLC

(***************************************************************************)
(* Program constants.                                                      *)
(***************************************************************************)
\* GRP_ID = 2121.00, the local participant identifier.
GRP_ID == 2121

\* len(neworexi) = len(spawn) = len(cli_vehicle) = 10 ("Space for 10").
Capacity == 10

\* struct.calcsize('d'): bytes per packed double.
DoubleSize == 8

\* RTOD = 57.2958, scaled by 10^4.
RTOD_e4 == 572958

\* try_spawn_actor's result when the spawn fails (Python None); actor
\* handles are 1, 2, ... and 0 is the lists' initial placeholder.
None == -1

(***************************************************************************)
(* Bounds of the model.                                                    *)
(***************************************************************************)
\* tl_sender performs at most MaxSends sends.
MaxSends == 2

\* Number of distinct identifiers outside the spawn-class chain (666, 5150,
\* 143, 2121, 1123) the network can carry in the "many" scenario (enough
\* to exceed Capacity).
NumUnknown == 10

\* Those identifiers: 7001, 7002, ...
UnknownIds == {7000 + k : k \in 1..NumUnknown}

\* Pose payloads (posX, posY, posZ, rollPos, pitchPos, yawPos) of peers;
\* angles in milliradians.
PoseA == <<10, 20, 30, 0, 0, 1571>>
PoseB == <<40, 50, 60, 100, -200, 3142>>

\* The two network scenarios the receiver is explored in: a few peers with
\* changing poses, or many peers (more than Capacity) with one pose.
Scenarios == {"few", "many"}

ScenarioPoses(sc) == IF sc = "few" THEN {PoseA, PoseB} ELSE {PoseA}

Slots == 0..(Capacity - 1)

VARIABLES
    sim_Running,      \* global sim_Running
    tlr_socklen,      \* global tlr_socklen
    tlr_double,       \* global tlr_double
    tls_cnt,          \* global tls_cnt
    num_cli,          \* global num_cli
    spawn,            \* global spawn[]
    cli_vehicle,      \* global cli_vehicle[]
    neworexi,         \* global neworexi[]
    motionSim_carla,  \* pose attributes posX,posY,posZ,rollPos,pitchPos,yawPos
    packed_data_tl,   \* tl_sender's local packed_data_tl (<<>> before packing)
    pc_tls,           \* position of the tl_sender thread
    pc_tlr,           \* position of the tl_receiver thread
    pc_main,          \* position of game_loop
    actors,           \* the simulator's actors spawned for peers, by handle
    scenario,         \* which peers exist on the multicast group
    sent,             \* history: datagrams handed to sendto by tl_sender
    spawn_requests,   \* history: identifiers try_spawn_actor was called for
    rx                \* what the last tl_receiver iteration did, with the
                      \* values it decoded into cars.cID .. cars.cRZ

VARIABLES
    pc_mb,            \* position of the mb_sender thread
    packed_data_mb,   \* mb_sender's local packed_data_mb (<<>> before packing)
    dynamics,         \* motionSim_carla's other attributes: velX .. accZ,
                      \* rollRate .. yawAcc, collSens
    pc_dyn,           \* mb_dynamics: the attribute it assigns next (0: not
                      \* inside mb_dynamics)
    tick,             \* the simulation tick mb_dynamics computes from
    sockets,          \* mb_sock, tls_sock, tlr_sock
    codec,            \* a record on its way through pack and unpack
    pair,             \* two sessions on one multicast group, each with its
                      \* own copy of the telemetry globals
    ex                \* the process running examples/sendsock_threads.py:
                      \* its globals, class attributes and three threads

\* The variables of the telemetry exchange, and those of the motion data
\* and the sockets.
core == <<sim_Running, tlr_socklen, tlr_double, tls_cnt, num_cli, spawn,
          cli_vehicle, neworexi, motionSim_carla, packed_data_tl,
          pc_tls, pc_tlr, pc_main, actors, scenario, sent, spawn_requests, rx>>

motion == <<pc_mb, packed_data_mb, dynamics, pc_dyn, tick, sockets>>

\* The variables outside the telemetry exchange of one session.
ext == <<pc_mb, packed_data_mb, dynamics, pc_dyn, tick, sockets, codec,
        pair, ex>>

vars == <<sim_Running, tlr_socklen, tlr_double, tls_cnt, num_cli, spawn,
          cli_vehicle, neworexi, motionSim_carla, packed_data_tl,
          pc_tls, pc_tlr, pc_main, actors, scenario, sent, spawn_requests, rx,
          ext>>

table == <<num_cli, neworexi, spawn, cli_vehicle>>

\* cars.cID .. cars.cRZ as the class defines them (all 0)
NoCars == <<0, 0, <<0, 0>>, 0, 0, 0, 0, 0, 0>>

RxNone == [kind |-> "none", len |-> 0, cars |-> NoCars, newspawn |-> 0,
           cli_ind |-> -1, moved |-> <<>>]

\* No record is being packed.
CodecOff == [pc |-> "off", kind |-> "none", fields |-> <<>>, wire |-> <<>>,
             out |-> <<>>]

\* No second session is modelled.
PairOff == <<>>

\* examples/sendsock_threads.py is not the program run: none of its
\* threads exists.
ExOff ==
    [pc_mb |-> "absent", mb_cnt |-> 0, mb_i |-> 0, attrs |-> <<>>,
     packed_data_mb |-> <<>>, mb_out |-> <<>>,
     pc_tls |-> "absent", tls_cnt |-> 0, tl_i |-> 0, telemetry |-> <<>>,
     packed_data_tl |-> <<>>, tl_out |-> <<>>,
     tlr_socklen |-> 0, tlr_double |-> 0, pc_tlr |-> "absent"]

\* velX .. collSens as the class defines them (all 0)
NoDynamics == <<0, 0, 0, 0, 0, 0, 0, 0, 0, 0, 0, 0, 0>>

SocketNames == {"mb", "tls", "tlr"}

\* The module's globals as the file defines them.
Globals ==
    /\ sim_Running = TRUE
    /\ tlr_socklen = 0
    /\ tlr_double = 0
    /\ tls_cnt = 0
    /\ num_cli = 0
    /\ spawn = [i \in Slots |-> 0]
    /\ cli_vehicle = [i \in Slots |-> 0]
    /\ neworexi = [i \in Slots |-> 0]
    /\ motionSim_carla = <<0, 0, 0, 0, 0, 0>>
    /\ packed_data_tl = <<>>
    /\ actors = <<>>
    /\ sent = <<>>
    /\ spawn_requests = <<>>
    /\ rx = RxNone

\* game_loop in its main loop, the telemetry threads started.
CoreInit ==
    /\ Globals
    /\ pc_tls = "top"
    /\ pc_tlr = "top"
    /\ pc_main = "loop"

\* motionSim_carla's other attributes as the class defines them, no tick
\* computed yet.
MotionGlobals ==
    /\ packed_data_mb = <<>>
    /\ dynamics = NoDynamics
    /\ pc_dyn = 0
    /\ tick = 0

\* mb_sender started, the three sockets open.
MotionInit ==
    /\ MotionGlobals
    /\ pc_mb = "top"
    /\ sockets = [s \in SocketNames |-> "open"]

Init ==
    /\ CoreInit
    /\ scenario \in Scenarios
    /\ MotionInit
    /\ codec = CodecOff
    /\ pair = PairOff
    /\ ex = ExOff

(***************************************************************************)
(* Wire format.  A datagram is the sequence of the doubles packed into it, *)
(* each taking DoubleSize bytes.                                           *)
(***************************************************************************)
ByteLen(data) == DoubleSize * Len(data)

\* struct.pack('d' * len(a), *a)
Pack(a) == [i \in 1..Len(a) |-> a[i]]

\* The minutes scaled by 6e8 instead of 6e7.
Timestamp_Scaled(now) == <<now[1] * 600 + now[2], now[3]>>

\* float(now.minute)*6e7 + float(now.second)*1e6 + float(now.microsecond)
\* The value exceeds 32 bits, so it is kept as <<millions, rest>>, standing
\* for millions * 10^6 + rest microseconds.
Timestamp(now) == <<now[1] * 60 + now[2], now[3]>>

\* Readings of datetime.datetime.now(): <<minute, second, microsecond>>,
\* at the start of an hour, at the start of its second minute and at its
\* last instant.
WideClocks == {<<0, 0, 0>>, <<1, 0, 0>>, <<59, 59, 999999>>}

\* The readings a scenario draws from: all of the above where the
\* publishers are looked at by themselves, the last instant of the hour
\* elsewhere.
Clocks ==
    IF scenario \in {"publish", "example"} THEN WideClocks
    ELSE {<<59, 59, 999999>>}

\* np.array([GRP_ID, tls_cnt, b_total, posX, posY, posZ, rollPos, pitchPos,
\* yawPos], dtype=np.float64)
carla_tl_double(cnt, b_total, m) ==
    <<GRP_ID, cnt, b_total, m[1], m[2], m[3], m[4], m[5], m[6]>>

(***************************************************************************)
(* tl_sender thread.                                                       *)
(***************************************************************************)
\* The process is alive with its threads started: game_loop is in its main
\* loop, or in its finally block, past the cleanup loop or past
\* sim_Running = False.
ProcessRuns == pc_main \in {"loop", "events", "cleaned", "done"}

\* while sim_Running == True: ... packed_data_tl = struct.pack(...)
TlsPack ==
    /\ UNCHANGED ext
    /\ ProcessRuns
    /\ pc_tls = "top"
    /\ sim_Running = TRUE
    /\ tls_cnt < MaxSends
    /\ \E now \in Clocks :
          packed_data_tl' =
              Pack(carla_tl_double(tls_cnt, Timestamp(now), motionSim_carla))
    /\ pc_tls' = "setlen"
    /\ UNCHANGED <<sim_Running, tlr_socklen, tlr_double, tls_cnt, num_cli,
                   spawn, cli_vehicle, neworexi, motionSim_carla,
                   pc_tlr, pc_main, actors, scenario, sent, spawn_requests, rx>>

\* the loop condition read as False: the thread returns
TlsExit ==
    /\ UNCHANGED ext
    /\ ProcessRuns
    /\ pc_tls = "top"
    /\ sim_Running = FALSE
    /\ pc_tls' = "done"
    /\ UNCHANGED <<sim_Running, tlr_socklen, tlr_double, tls_cnt, num_cli,
                   spawn, cli_vehicle, neworexi, motionSim_carla,
                   packed_data_tl, pc_tlr, pc_main, actors, scenario, sent,
                   spawn_requests, rx>>

\* tlr_socklen = len(packed_data_tl)
TlsSetLen ==
    /\ UNCHANGED ext
    /\ ProcessRuns
    /\ pc_tls = "setlen"
    /\ tlr_socklen' = ByteLen(packed_data_tl)
    /\ pc_tls' = "setdbl"
    /\ UNCHANGED <<sim_Running, tlr_double, tls_cnt, num_cli, spawn,
                   cli_vehicle, neworexi, motionSim_carla,
                   packed_data_tl, pc_tlr, pc_main, actors, scenario, sent,
                   spawn_requests, rx>>

\* tlr_double = len(carla_tl_double)
TlsSetDouble ==
    /\ UNCHANGED ext
    /\ ProcessRuns
    /\ pc_tls = "setdbl"
    /\ tlr_double' = Len(packed_data_tl)
    /\ pc_tls' = "send"
    /\ UNCHANGED <<sim_Running, tlr_socklen, tls_cnt, num_cli, spawn,
                   cli_vehicle, neworexi, motionSim_carla,
                   packed_data_tl, pc_tlr, pc_main, actors, scenario, sent,
                   spawn_requests, rx>>

\* tls_sock.sendto(packed_data_tl, (MCAST_GRP, MCAST_PORT))
TlsSend ==
    /\ UNCHANGED ext
    /\ ProcessRuns
    /\ pc_tls = "send"
    /\ sockets["tls"] = "open"
    /\ sent' = Append(sent, packed_data_tl[2])
    /\ pc_tls' = "inc"
    /\ UNCHANGED <<sim_Running, tlr_socklen, tlr_double, tls_cnt, num_cli,
                   spawn, cli_vehicle, neworexi, motionSim_carla,
                   packed_data_tl, pc_tlr, pc_main, actors, scenario,
                   spawn_requests, rx>>

\* The increment mistyped as tls_cnt =+ 1.
NextCount_Typo(cnt) == 1

\* tls_cnt += 1 ; time.sleep(slp_snd)
NextCount(cnt) == cnt + 1

TlsInc ==
    /\ UNCHANGED ext
    /\ ProcessRuns
    /\ pc_tls = "inc"
    /\ tls_cnt' = NextCount(tls_cnt)
    /\ pc_tls' = "top"
    /\ UNCHANGED <<sim_Running, tlr_socklen, tlr_double, num_cli, spawn,
                   cli_vehicle, neworexi, motionSim_carla,
                   packed_data_tl, pc_tlr, pc_main, actors, scenario, sent,
                   spawn_requests, rx>>

tl_sender == TlsPack \/ TlsExit \/ TlsSetLen \/ TlsSetDouble \/ TlsSend \/ TlsInc

(***************************************************************************)
(* The multicast group as the receiver sees it.  Any session may send at   *)
(* any time, so a receive attempt yields any datagram the scenario's       *)
(* sessions can produce, this session's own included, or a datagram of a   *)
(* wrong length.  Identifiers outside the chain are interchangeable for the *)
(* receiver (it only compares them), so they show up in one fixed order.   *)
(***************************************************************************)
Registered == {neworexi[i] : i \in 0..(num_cli - 1)}

FewPeers == {666, 5150, 7001}

OnePeer == {5150}

ManyPeers == {5150} \cup {u \in UnknownIds : u = 7001 \/ (u - 1) \in Registered}

\* One session for each identifier of the blueprint chain that another
\* session can have, and one the chain does not list.
ClassPeers == {666, 5150, 143, 1123, 7001}

NetIds ==
    {GRP_ID} \cup (IF scenario = "few" THEN FewPeers
                   ELSE IF scenario = "many" THEN ManyPeers
                   ELSE IF scenario = "classes" THEN ClassPeers
                   ELSE OnePeer)

\* A well-formed telemetry datagram of a session: id, sequence number,
\* timestamp, then the pose.
PeerDatagram(id, pose) == Pack(<<id, 0, <<0, 0>> >> \o pose)

\* The same with the last double missing, or with one more double.
ShortDatagram(id, pose) == SubSeq(PeerDatagram(id, pose), 1, 8)
LongDatagram(id, pose) == PeerDatagram(id, pose) \o <<0>>

WellFormed == {PeerDatagram(id, p) : id \in NetIds, p \in ScenarioPoses(scenario)}
Malformed ==
    {ShortDatagram(id, p) : id \in NetIds, p \in ScenarioPoses(scenario)}
    \cup {LongDatagram(id, p) : id \in NetIds, p \in ScenarioPoses(scenario)}

\* world.map.get_spawn_points(): the map's spawn points, by number
udp_spawn_points == IF scenario = "few" THEN {1, 2} ELSE {1}

\* The transform of spawn point sp, where a spawned actor first stands.
SpawnTransform(sp) ==
    [location |-> <<1000 * sp, 0, 0>>,
     rotation |-> [pitch |-> 0, yaw |-> 0, roll |-> 0]]

(***************************************************************************)
(* tl_receiver thread: the pure parts of one loop iteration.               *)
(***************************************************************************)
Min(a, b) == IF a < b THEN a ELSE b

\* The receive asking for more than the recorded length: the whole datagram
\* comes back, whatever bufsize says.
recvfrom_Whole(d, bufsize) == d

\* tlr_sock.recvfrom(bufsize) on a datagram socket returns at most bufsize
\* bytes of the datagram and discards the rest.
recvfrom(d, bufsize) == SubSeq(d, 1, Min(Len(d), bufsize \div DoubleSize))

\* struct.unpack('d' * n, data) needs len(data) = 8 * n, and the assignment
\* to the nine attributes of cars needs nine values.
CanUnpack(data, n) == ByteLen(data) = DoubleSize * n /\ n = 9

\* The self-filter left out: every decoded packet is treated as a peer's.
IsForeign_NoFilter(cID) == TRUE

\* cars.cID != GRP_ID
IsForeign(cID) == cID /= GRP_ID

\* The search stopping one entry early: range(num_cli - 1).
RECURSIVE FindClient_SkipLast(_, _, _, _)
FindClient_SkipLast(tab, n, cID, i) ==
    IF i >= n - 1 THEN -1
    ELSE IF tab[i] = cID THEN i
    ELSE FindClient_SkipLast(tab, n, cID, i + 1)

\* for i in range(num_cli): if neworexi[i] == cID: ... break
RECURSIVE FindClient(_, _, _, _)
FindClient(tab, n, cID, i) ==
    IF i >= n THEN -1
    ELSE IF tab[i] = cID THEN i
    ELSE FindClient(tab, n, cID, i + 1)

\* The new identifier written over the last registered one:
\* neworexi[num_cli - 1] = cID.
Register_OverwriteLast(tab, n, cID) ==
    IF n \notin DOMAIN tab
    THEN [raised |-> TRUE, neworexi |-> tab, num_cli |-> n, newspawn |-> 0,
          cli_ind |-> -1]
    ELSE [raised |-> FALSE,
          neworexi |-> [tab EXCEPT ![IF n = 0 THEN 0 ELSE n - 1] = cID],
          num_cli |-> n + 1, newspawn |-> 1, cli_ind |-> n]

\* neworexi[num_cli] = cID ; num_cli += 1 ; newspawn = 1 ; cli_ind = num_cli - 1
\* (the list assignment raises IndexError when num_cli = len(neworexi))
Register(tab, n, cID) ==
    IF n \notin DOMAIN tab
    THEN [raised |-> TRUE, neworexi |-> tab, num_cli |-> n, newspawn |-> 0,
          cli_ind |-> -1]
    ELSE [raised |-> FALSE, neworexi |-> [tab EXCEPT ![n] = cID],
          num_cli |-> n + 1, newspawn |-> 1, cli_ind |-> n]

\* An existing client found, but still marked for spawning.
Resolve_Respawn(tab, n, cID) ==
    IF n = 0 THEN Register(tab, n, cID)
    ELSE LET i == FindClient(tab, n, cID, 0) IN
         IF i /= -1
         THEN [raised |-> FALSE, neworexi |-> tab, num_cli |-> n,
               newspawn |-> 1, cli_ind |-> i]
         ELSE Register(tab, n, cID)

\* "Is this a NEW or EXISTING client?"
Resolve(tab, n, cID) ==
    IF n = 0 THEN Register(tab, n, cID)
    ELSE LET i == FindClient(tab, n, cID, 0) IN
         IF i /= -1
         THEN [raised |-> FALSE, neworexi |-> tab, num_cli |-> n,
               newspawn |-> 0, cli_ind |-> i]
         ELSE Register(tab, n, cID)

\* The chain with two of its branches swapped: 143 gets the blueprint of
\* 1123 and 1123 that of 143.
BlueprintNum_Swapped(cID) ==
    IF cID = 666 THEN 0
    ELSE IF cID = 5150 THEN 1
    ELSE IF cID = 143 THEN 4
    ELSE IF cID = 2121 THEN 3
    ELSE IF cID = 1123 THEN 2
    ELSE 0

\* the if/elif chain choosing the blueprint index
BlueprintNum(cID) ==
    IF cID = 666 THEN 0
    ELSE IF cID = 5150 THEN 1
    ELSE IF cID = 143 THEN 2
    ELSE IF cID = 2121 THEN 3
    ELSE IF cID = 1123 THEN 4
    ELSE 0

\* cR * RTOD on fixed-point values (milliradians to millidegrees)
ToDegrees(r) == (r * RTOD_e4) \div 10000

\* cli_transf: Location(x=cPX, y=cPY, z=cPZ),
\* Rotation(pitch=cRY*RTOD, yaw=cRZ*RTOD, roll=cRX*RTOD)
MakeTransform(c) ==
    [location |-> <<c[4], c[5], c[6]>>,
     rotation |-> [pitch |-> ToDegrees(c[8]), yaw |-> ToDegrees(c[9]),
                   roll |-> ToDegrees(c[7])]]

\* The handle the receiver calls set_transform on.
MoveTarget(veh, cli_ind) == veh[cli_ind]

(***************************************************************************)
(* tl_receiver thread: one action per outcome of a loop iteration.         *)
(***************************************************************************)
TlrRuns == ProcessRuns /\ pc_tlr = "top" /\ sim_Running = TRUE

Rx(kind, len, c, newspawn, cli_ind, moved) ==
    [kind |-> kind, len |-> len, cars |-> c, newspawn |-> newspawn,
     cli_ind |-> cli_ind, moved |-> moved]

\* lines 564-592 for a resolved packet c: spawn if new, then set_transform.
\* sp is random.choice's pick, ok whether try_spawn_actor returned an actor.
SpawnAndMove(c, len, r, sp, ok) ==
    LET isNew   == r.newspawn = 1
        handle  == IF ok THEN Len(actors) + 1 ELSE None
        spawn1  == IF isNew THEN [spawn EXCEPT ![r.num_cli - 1] = sp] ELSE spawn
        veh1    == IF isNew THEN [cli_vehicle EXCEPT ![r.num_cli - 1] = handle]
                   ELSE cli_vehicle
        actors1 == IF isNew /\ ok
                   THEN Append(actors, [blueprint |-> BlueprintNum(c[1]),
                                        transform |-> SpawnTransform(sp), alive |-> TRUE])
                   ELSE actors
        target  == MoveTarget(veh1, r.cli_ind)
    IN  /\ neworexi' = r.neworexi
        /\ num_cli' = r.num_cli
        /\ spawn' = spawn1
        /\ cli_vehicle' = veh1
        /\ spawn_requests' = IF isNew THEN Append(spawn_requests, c[1])
                             ELSE spawn_requests
        /\ IF target = None
           THEN \* None.set_transform: AttributeError ends the thread
                /\ actors' = actors1
                /\ pc_tlr' = "dead"
                /\ rx' = Rx("nohandle", len, c, r.newspawn, r.cli_ind, <<>>)
           ELSE /\ actors' = [actors1 EXCEPT ![target].transform = MakeTransform(c)]
                /\ pc_tlr' = "top"
                /\ rx' = Rx("peer", len, c, r.newspawn, r.cli_ind, <<target>>)

\* lines 533-604 once recvfrom has returned datagram d
OnDatagram(d) ==
    LET data == recvfrom(d, tlr_socklen) IN
    IF ~CanUnpack(data, tlr_double)
    THEN \* struct.error is not a socket.error: it ends the thread
         /\ pc_tlr' = "dead"
         /\ rx' = Rx("undecodable", ByteLen(d), NoCars, 0, -1, <<>>)
         /\ UNCHANGED <<num_cli, neworexi, spawn, cli_vehicle, actors,
                        spawn_requests>>
    ELSE IF ~IsForeign(data[1])
    THEN \* own packet: only the fps statistics
         /\ pc_tlr' = "top"
         /\ rx' = Rx("self", ByteLen(d), data, 0, -1, <<>>)
         /\ UNCHANGED <<num_cli, neworexi, spawn, cli_vehicle, actors,
                        spawn_requests>>
    ELSE LET r == Resolve(neworexi, num_cli, data[1]) IN
         IF r.raised
         THEN \* IndexError from neworexi[num_cli] = ... ends the thread
              /\ pc_tlr' = "dead"
              /\ rx' = Rx("full", ByteLen(d), data, 0, -1, <<>>)
              /\ UNCHANGED <<num_cli, neworexi, spawn, cli_vehicle, actors,
                             spawn_requests>>
         ELSE IF r.newspawn = 1
         THEN \E sp \in udp_spawn_points, ok \in BOOLEAN :
                  SpawnAndMove(data, ByteLen(d), r, sp, ok)
         ELSE SpawnAndMove(data, ByteLen(d), r, 0, FALSE)

\* if tlr_socklen != 0: is false, the loop spins
TlrIdle ==
    /\ UNCHANGED ext
    /\ TlrRuns
    /\ tlr_socklen = 0
    /\ rx' = Rx("idle", 0, NoCars, 0, -1, <<>>)
    /\ UNCHANGED <<sim_Running, tlr_socklen, tlr_double, tls_cnt, num_cli,
                   spawn, cli_vehicle, neworexi, motionSim_carla,
                   packed_data_tl, pc_tls, pc_tlr, pc_main, actors, scenario,
                   sent, spawn_requests>>

\* The would-block error re-raised instead of continuing: the thread ends.
TlrWouldBlock_Fatal ==
    /\ UNCHANGED ext
    /\ TlrRuns
    /\ tlr_socklen /= 0
    /\ rx' = Rx("eagain", 0, NoCars, 0, -1, <<>>)
    /\ pc_tlr' = "dead"
    /\ UNCHANGED <<sim_Running, tlr_socklen, tlr_double, tls_cnt, num_cli,
                   spawn, cli_vehicle, neworexi, motionSim_carla,
                   packed_data_tl, pc_tls, pc_main, actors, scenario,
                   sent, spawn_requests>>

\* recvfrom raises EAGAIN / EWOULDBLOCK: continue
TlrWouldBlock ==
    /\ UNCHANGED ext
    /\ TlrRuns
    /\ tlr_socklen /= 0
    /\ rx' = Rx("eagain", 0, NoCars, 0, -1, <<>>)
    /\ UNCHANGED <<sim_Running, tlr_socklen, tlr_double, tls_cnt, num_cli,
                   spawn, cli_vehicle, neworexi, motionSim_carla,
                   packed_data_tl, pc_tls, pc_tlr, pc_main, actors, scenario,
                   sent, spawn_requests>>

\* recvfrom raises another socket.error: the except clause swallows it
TlrSocketError ==
    /\ UNCHANGED ext
    /\ TlrRuns
    /\ tlr_socklen /= 0
    /\ rx' = Rx("oserror", 0, NoCars, 0, -1, <<>>)
    /\ UNCHANGED <<sim_Running, tlr_socklen, tlr_double, tls_cnt, num_cli,
                   spawn, cli_vehicle, neworexi, motionSim_carla,
                   packed_data_tl, pc_tls, pc_tlr, pc_main, actors, scenario,
                   sent, spawn_requests>>

\* recvfrom returns a datagram of the telemetry length
TlrWellFormed ==
    /\ UNCHANGED ext
    /\ TlrRuns
    /\ tlr_socklen /= 0
    /\ \E d \in WellFormed : OnDatagram(d)
    /\ UNCHANGED <<sim_Running, tlr_socklen, tlr_double, tls_cnt,
                   motionSim_carla, packed_data_tl, pc_tls, pc_main, scenario,
                   sent>>

\* recvfrom returns a datagram of another length
TlrMalformed ==
    /\ UNCHANGED ext
    /\ TlrRuns
    /\ tlr_socklen /= 0
    /\ \E d \in Malformed : OnDatagram(d)
    /\ UNCHANGED <<sim_Running, tlr_socklen, tlr_double, tls_cnt,
                   motionSim_carla, packed_data_tl, pc_tls, pc_main, scenario,
                   sent>>

\* the loop condition read as False: the thread returns
TlrExit ==
    /\ UNCHANGED ext
    /\ ProcessRuns
    /\ pc_tlr = "top"
    /\ sim_Running = FALSE
    /\ pc_tlr' = "done"
    /\ UNCHANGED <<sim_Running, tlr_socklen, tlr_double, tls_cnt, num_cli,
                   spawn, cli_vehicle, neworexi, motionSim_carla,
                   packed_data_tl, pc_tls, pc_main, actors, scenario, sent,
                   spawn_requests, rx>>

tl_receiver ==
    TlrIdle \/ TlrWouldBlock \/ TlrSocketError \/ TlrWellFormed
    \/ TlrMalformed \/ TlrExit

(***************************************************************************)
(* game_loop: the finally block, entered on quit or on an exception.       *)
(***************************************************************************)
\* for i in range(num_cli): cli_vehicle[i].destroy()
\* The slots destroyed before the loop ends or meets a None.
RECURSIVE DestroyedUpTo(_, _, _)
DestroyedUpTo(veh, n, i) ==
    IF i >= n \/ veh[i] = None THEN i ELSE DestroyedUpTo(veh, n, i + 1)

game_loop_finally ==
    /\ UNCHANGED ext
    /\ pc_main \in {"loop", "events"}
    /\ LET k == DestroyedUpTo(cli_vehicle, num_cli, 0)
           gone == {cli_vehicle[i] : i \in 0..(k - 1)}
       IN  /\ actors' = [h \in DOMAIN actors |->
                           IF h \in gone THEN [actors[h] EXCEPT !.alive = FALSE]
                           ELSE actors[h]]
           /\ IF k < num_cli
              THEN \* None.destroy() raises: the rest of finally is skipped
                   /\ pc_main' = "failed"
                   /\ UNCHANGED sim_Running
              ELSE /\ pc_main' = "done"
                   /\ sim_Running' = FALSE
    /\ UNCHANGED <<tlr_socklen, tlr_double, tls_cnt, num_cli, spawn,
                   cli_vehicle, neworexi, motionSim_carla,
                   packed_data_tl, pc_tls, pc_tlr, scenario, sent,
                   spawn_requests, rx>>

Next == tl_sender \/ tl_receiver \/ game_loop_finally

Spec == Init /\ [][Next]_vars

(***************************************************************************)
(* The wire format byte by byte.  A double is modelled by an integer of    *)
(* magnitude below 2^31 and packed as the IEEE 754 encoding of that value, *)
(* little-endian as struct's native order on x86.                          *)
(***************************************************************************)
Bit(n, k) == (n \div 2^k) % 2

Abs(v) == IF v < 0 THEN -v ELSE v

\* floor(log2(n)) for 1 <= n < 2^31
Log2(n) == CHOOSE e \in 0..30 : n \div 2^e = 1

\* The number whose binary digits are bits[lo], bits[lo+1], ... (n of them,
\* least significant first).
RECURSIVE Weighted(_, _, _)
Weighted(bits, lo, n) ==
    IF n <= 0 THEN 0 ELSE bits[lo] + 2 * Weighted(bits, lo + 1, n - 1)

\* The bytes of a bit string, least significant byte first.
BytesOf(bits, n) == [b \in 1..n |-> Weighted(bits, 8 * (b - 1), 8)]

\* The bit string of a byte sequence.
BitsOf(bytes) ==
    [k \in 0..(8 * Len(bytes) - 1) |-> Bit(bytes[(k \div 8) + 1], k % 8)]

\* binary64: sign (bit 63), exponent + 1023 (bits 52..62), fraction
\* (bits 0..51).
DoubleBits(v) ==
    IF v = 0 THEN [k \in 0..63 |-> 0]
    ELSE LET a == Abs(v)
             e == Log2(a)
             m == a - 2^e
         IN  [k \in 0..63 |->
                 IF k = 63 THEN (IF v < 0 THEN 1 ELSE 0)
                 ELSE IF k >= 52 THEN Bit(e + 1023, k - 52)
                 ELSE IF k >= 52 - e THEN Bit(m, k - (52 - e))
                 ELSE 0]

\* The value of a binary64 bit string; fraction bits below the units are
\* dropped and exponents outside 0..30 give 0 (no packed value of the model
\* has either).
DoubleValue(bits) ==
    LET E == Weighted(bits, 52, 11)
        e == E - 1023
    IN  IF E = 0 \/ e \notin 0..30 THEN 0
        ELSE (IF bits[63] = 1 THEN -1 ELSE 1)
             * (2^e + Weighted(bits, 52 - e, e))

\* dtype=np.float32: the nearest binary32 value (24 significant bits, ties
\* to even).
np_float32(v) ==
    IF v = 0 THEN 0
    ELSE LET a == Abs(v)
             e == Log2(a)
         IN  IF e <= 23 THEN v
             ELSE LET q    == 2^(e - 23)
                      r    == a % q
                      down == a - r
                      up   == down + q
                      pick == IF 2 * r < q THEN down
                              ELSE IF 2 * r > q THEN up
                              ELSE IF (down \div q) % 2 = 0 THEN down
                              ELSE up
                  IN  (IF v < 0 THEN -1 ELSE 1) * pick

\* binary32: sign (bit 31), exponent + 127 (bits 23..30), fraction
\* (bits 0..22); struct's 'f' rounds its argument to binary32.
FloatBits(v) ==
    LET w == np_float32(v) IN
    IF w = 0 THEN [k \in 0..31 |-> 0]
    ELSE LET a == Abs(w)
             e == Log2(a)
             m == a - 2^e
         IN  [k \in 0..31 |->
                 IF k = 31 THEN (IF w < 0 THEN 1 ELSE 0)
                 ELSE IF k >= 23 THEN Bit(e + 127, k - 23)
                 ELSE IF e > 23 THEN Bit(m, k + (e - 23))
                 ELSE IF k >= 23 - e THEN Bit(m, k - (23 - e))
                 ELSE 0]

\* The value of a binary32 bit string, as DoubleValue.
FloatValue(bits) ==
    LET E == Weighted(bits, 23, 8)
        e == E - 127
    IN  IF E = 0 \/ e \notin 0..30 THEN 0
        ELSE (IF bits[31] = 1 THEN -1 ELSE 1)
             * (IF e > 23 THEN (2^23 + Weighted(bits, 0, 23)) * 2^(e - 23)
                ELSE 2^e + Weighted(bits, 23 - e, e))

FloatSize == 4

\* struct.pack('d' * len(a), *a), byte by byte
struct_pack_d(a) ==
    [j \in 1..(DoubleSize * Len(a)) |->
        BytesOf(DoubleBits(a[((j - 1) \div DoubleSize) + 1]),
                DoubleSize)[((j - 1) % DoubleSize) + 1]]

\* struct.pack('f' * len(a), *a), byte by byte
struct_pack_f(a) ==
    [j \in 1..(FloatSize * Len(a)) |->
        BytesOf(FloatBits(a[((j - 1) \div FloatSize) + 1]),
                FloatSize)[((j - 1) % FloatSize) + 1]]

\* The doubles read from the wrong end of each 8 bytes (the '>d' layout).
struct_unpack_d_BigEndian(n, data) ==
    [i \in 1..n |->
        DoubleValue(BitsOf([b \in 1..DoubleSize |->
                               data[DoubleSize * i + 1 - b]]))]

\* struct.unpack('d' * n, data), for len(data) = 8 * n
struct_unpack_d(n, data) ==
    [i \in 1..n |->
        DoubleValue(BitsOf(SubSeq(data, DoubleSize * (i - 1) + 1,
                                  DoubleSize * i)))]

\* struct.unpack('f' * n, data), for len(data) = 4 * n: the decoder matching
\* mb_sender's layout (the motion platform's side of the loopback)
struct_unpack_f(n, data) ==
    [i \in 1..n |->
        FloatValue(BitsOf(SubSeq(data, FloatSize * (i - 1) + 1,
                                 FloatSize * i)))]

\* b_total as one number, for readings of the clock early enough in the
\* hour for it to stay below 2^31
Micros(t) == t[1] * 1000000 + t[2]

\* np.array([var_mb.posX, ..., var_mb.collSens], dtype=np.float32)
carla_vd_floats(m) == [i \in 1..Len(m) |-> np_float32(m[i])]

\* Field values the records are built from: small, negative, with 25 and
\* with 30 significant bits.
CodecValues == {0, 1, -200, 1571, 16777217, -33554434, 1073741823}

CodecClocks == {<<0, 0, 0>>, <<0, 59, 999999>>, <<35, 47, 483647>>}

NumMotionFields == 19

\* The telemetry records tl_sender can build.
TelemetryRecords ==
    {carla_tl_double(cnt, Micros(Timestamp(now)), <<x, y, z, y, z, x>>) :
        cnt \in 0..MaxSends, now \in CodecClocks,
        x \in CodecValues, y \in CodecValues, z \in {0, -200}}

\* The motion records mb_sender can build.
MotionRecords ==
    {carla_vd_floats([i \in 1..NumMotionFields |->
                         IF i % 3 = 1 THEN x ELSE IF i % 3 = 2 THEN y ELSE -x]) :
        x \in CodecValues, y \in CodecValues}

CodecInit ==
    /\ CoreInit
    /\ scenario = "few"
    /\ MotionInit
    /\ pair = PairOff
    /\ ex = ExOff
    /\ \/ \E r \in TelemetryRecords :
             codec = [pc |-> "built", kind |-> "tl", fields |-> r,
                      wire |-> <<>>, out |-> <<>>]
       \/ \E r \in MotionRecords :
             codec = [pc |-> "built", kind |-> "mb", fields |-> r,
                      wire |-> <<>>, out |-> <<>>]

\* packed_data_tl = struct.pack(...) / packed_data_mb = struct.pack(...)
CodecPack ==
    /\ codec.pc = "built"
    /\ codec' = [codec EXCEPT
                    !.pc = "packed",
                    !.wire = IF codec.kind = "tl"
                             THEN struct_pack_d(codec.fields)
                             ELSE struct_pack_f(codec.fields)]
    /\ UNCHANGED <<core, motion, pair, ex>>

\* struct.unpack('d' * tlr_double, data), and its 'f' counterpart
CodecUnpack ==
    /\ codec.pc = "packed"
    /\ codec' = [codec EXCEPT
                    !.pc = "unpacked",
                    !.out = IF codec.kind = "tl"
                            THEN struct_unpack_d(Len(codec.wire) \div DoubleSize,
                                                 codec.wire)
                            ELSE struct_unpack_f(Len(codec.wire) \div FloatSize,
                                                 codec.wire)]
    /\ UNCHANGED <<core, motion, pair, ex>>

CodecNext == CodecPack \/ CodecUnpack

CodecSpec == CodecInit /\ [][CodecNext]_vars

(***************************************************************************)
(* mb_sender thread, and mb_dynamics, which the main loop calls each tick. *)
(***************************************************************************)
\* var_mb's attributes in the order mb_sender lists them (and mb_dynamics
\* assigns them): posX posY posZ, velX .. accZ, rollPos pitchPos yawPos,
\* rollRate .. yawAcc, collSens.
MotionFields(m, d) ==
    <<m[1], m[2], m[3], d[1], d[2], d[3], d[4], d[5], d[6], m[4], m[5], m[6],
      d[7], d[8], d[9], d[10], d[11], d[12], d[13]>>

\* while sim_Running == True: carla_vd_floats = np.array(...) ;
\* packed_data_mb = struct.pack(...)
MbPack ==
    /\ ProcessRuns
    /\ pc_mb = "top"
    /\ sim_Running = TRUE
    /\ packed_data_mb' =
          Pack(carla_vd_floats(MotionFields(motionSim_carla, dynamics)))
    /\ pc_mb' = "send"
    /\ UNCHANGED <<core, dynamics, pc_dyn, tick, sockets, codec, pair, ex>>

\* mb_sock.sendto(packed_data_mb, (UDP_IP, UDP_PORT)) ; time.sleep(slp_snd)
MbSend ==
    /\ ProcessRuns
    /\ pc_mb = "send"
    /\ sockets["mb"] = "open"
    /\ pc_mb' = "top"
    /\ UNCHANGED <<core, packed_data_mb, dynamics, pc_dyn, tick, sockets, codec, pair, ex>>

\* The send error taking the whole program down with it.
MbSendError_StopsAll ==
    /\ ProcessRuns
    /\ pc_mb = "send"
    /\ pc_mb' = "dead"
    /\ sim_Running' = FALSE
    /\ UNCHANGED <<tlr_socklen, tlr_double, tls_cnt, num_cli, spawn,
                   cli_vehicle, neworexi, motionSim_carla, packed_data_tl,
                   pc_tls, pc_tlr, pc_main, actors, scenario, sent,
                   spawn_requests, rx>>
    /\ UNCHANGED <<packed_data_mb, dynamics, pc_dyn, tick, sockets, codec, pair, ex>>

\* sendto raises a socket error: nothing in mb_sender catches it, so the
\* thread ends
MbSendError ==
    /\ ProcessRuns
    /\ pc_mb = "send"
    /\ pc_mb' = "dead"
    /\ UNCHANGED <<core, packed_data_mb, dynamics, pc_dyn, tick, sockets, codec, pair, ex>>

\* The loop written as while True: the flag is not looked at and the next
\* iteration begins.
MbExit_LoopsOn ==
    /\ ProcessRuns
    /\ pc_mb = "top"
    /\ sim_Running = FALSE
    /\ packed_data_mb' =
          Pack(carla_vd_floats(MotionFields(motionSim_carla, dynamics)))
    /\ pc_mb' = "send"
    /\ UNCHANGED <<core, dynamics, pc_dyn, tick, sockets, codec, pair, ex>>

\* the loop condition read as False: the thread returns
MbExit ==
    /\ ProcessRuns
    /\ pc_mb = "top"
    /\ sim_Running = FALSE
    /\ pc_mb' = "done"
    /\ UNCHANGED <<core, packed_data_mb, dynamics, pc_dyn, tick, sockets, codec, pair, ex>>

mb_sender == MbPack \/ MbSend \/ MbSendError \/ MbExit

\* Ticks are told apart by an identifier that cycles through 1..NumTickIds.
NumTickIds == 2

NextTick(k) == (k % NumTickIds) + 1

\* The number of attributes mb_dynamics assigns (lines 437-456).
NumAssigned == 19

\* Which pose attribute, or which other attribute, the i-th assignment of
\* mb_dynamics writes (0: none).
PoseIndex(i) == IF i <= 3 THEN i ELSE IF i \in 10..12 THEN i - 6 ELSE 0

DynIndex(i) == IF i \in 4..9 THEN i - 3 ELSE IF i >= 13 THEN i - 6 ELSE 0

\* mb_dynamics(world) is called: it reads the player's transform, velocity
\* and acceleration of this tick.  Every value it will assign is a function
\* of the tick, and is modelled by the tick's identifier.
DynBegin ==
    /\ pc_main = "loop"
    /\ pc_dyn = 0
    /\ tick' = NextTick(tick)
    /\ pc_dyn' = 1
    /\ UNCHANGED <<core, pc_mb, packed_data_mb, dynamics, sockets, codec, pair, ex>>

\* one of the assignments motionSim_carla.posX = ... .. .collSens = ...
DynWrite ==
    /\ pc_main = "loop"
    /\ pc_dyn \in 1..NumAssigned
    /\ motionSim_carla' =
          IF PoseIndex(pc_dyn) /= 0
          THEN [motionSim_carla EXCEPT ![PoseIndex(pc_dyn)] = tick]
          ELSE motionSim_carla
    /\ dynamics' =
          IF DynIndex(pc_dyn) /= 0
          THEN [dynamics EXCEPT ![DynIndex(pc_dyn)] = tick]
          ELSE dynamics
    /\ pc_dyn' = IF pc_dyn = NumAssigned THEN 0 ELSE pc_dyn + 1
    /\ UNCHANGED <<sim_Running, tlr_socklen, tlr_double, tls_cnt, num_cli,
                   spawn, cli_vehicle, neworexi, packed_data_tl,
                   pc_tls, pc_tlr, pc_main, actors, scenario, sent,
                   spawn_requests, rx>>
    /\ UNCHANGED <<pc_mb, packed_data_mb, tick, sockets, codec, pair, ex>>

mb_dynamics == DynBegin \/ DynWrite

\* The main loop ticking with both publishers running, until game_loop
\* leaves through its finally block.
SnapInit ==
    /\ CoreInit
    /\ scenario = "few"
    /\ MotionInit
    /\ codec = CodecOff
    /\ pair = PairOff
    /\ ex = ExOff

SnapNext == mb_dynamics \/ mb_sender \/ tl_sender \/ game_loop_finally

SnapSpec == SnapInit /\ [][SnapNext]_vars

(***************************************************************************)
(* game_loop step by step: the sockets opened, the threads started, the    *)
(* main loop, and the finally block; with the three worker threads.        *)
(***************************************************************************)
\* mb_sock / tls_sock / tlr_sock = socket.socket(...) (and the options set)
OpenSocket(at, name, next) ==
    /\ pc_main = at
    /\ sockets' = [sockets EXCEPT ![name] = "open"]
    /\ pc_main' = next
    /\ UNCHANGED <<sim_Running, tlr_socklen, tlr_double, tls_cnt, num_cli,
                   spawn, cli_vehicle, neworexi, motionSim_carla,
                   packed_data_tl, pc_tls, pc_tlr, actors, scenario, sent,
                   spawn_requests, rx>>
    /\ UNCHANGED <<pc_mb, packed_data_mb, dynamics, pc_dyn, tick, codec, pair, ex>>

MainOpenMb == OpenSocket("open_mb", "mb", "open_tls")

MainOpenTls == OpenSocket("open_tls", "tls", "open_tlr")

MainOpenTlr == OpenSocket("open_tlr", "tlr", "setup")

\* tlr_sock is created, then bind or a setsockopt (IP_ADD_MEMBERSHIP ...)
\* raises: this is before the try, so the exception leaves game_loop with
\* no finally block run.
MainBindError == OpenSocket("open_tlr", "tlr", "crashed")

\* An exception inside the try before the threads are started
\* (carla.Client, get_world, World(...)): the finally block runs with
\* num_cli = 0, so it destroys nothing and sets sim_Running = False.
MainSetupError ==
    /\ pc_main = "setup"
    /\ pc_main' = "done"
    /\ sim_Running' = FALSE
    /\ UNCHANGED <<tlr_socklen, tlr_double, tls_cnt, num_cli, spawn,
                   cli_vehicle, neworexi, motionSim_carla, packed_data_tl,
                   pc_tls, pc_tlr, actors, scenario, sent, spawn_requests, rx>>
    /\ UNCHANGED ext

\* threading.Thread(target=..., daemon=True).start(), three times
MainStart ==
    /\ pc_main = "setup"
    /\ pc_main' = "loop"
    /\ pc_mb' = "top"
    /\ pc_tls' = "top"
    /\ pc_tlr' = "top"
    /\ UNCHANGED <<sim_Running, tlr_socklen, tlr_double, tls_cnt, num_cli,
                   spawn, cli_vehicle, neworexi, motionSim_carla,
                   packed_data_tl, actors, scenario, sent, spawn_requests, rx>>
    /\ UNCHANGED <<packed_data_mb, dynamics, pc_dyn, tick, sockets, codec, pair, ex>>

\* The first half of a pass of the main loop: sim_world.tick, the clock,
\* and mb_dynamics(world) as a whole (DynBegin and its NumAssigned
\* assignments).  The world is static here: every tick computes the values
\* of the first one.
MainTick ==
    /\ pc_main = "loop"
    /\ pc_dyn = 0
    /\ pc_main' = "events"
    /\ tick' = NextTick(0)
    /\ motionSim_carla' = [i \in 1..Len(motionSim_carla) |-> NextTick(0)]
    /\ dynamics' = [i \in 1..Len(dynamics) |-> NextTick(0)]
    /\ UNCHANGED <<sim_Running, tlr_socklen, tlr_double, tls_cnt, num_cli,
                   spawn, cli_vehicle, neworexi, packed_data_tl,
                   pc_tls, pc_tlr, actors, scenario, sent,
                   spawn_requests, rx>>
    /\ UNCHANGED <<pc_mb, packed_data_mb, pc_dyn, sockets, codec, pair, ex>>

\* The second half: parse_events returns False, world.tick, world.render,
\* pygame.display.flip, and back to the top of the loop.
MainEvents ==
    /\ pc_main = "events"
    /\ pc_main' = "loop"
    /\ UNCHANGED <<sim_Running, tlr_socklen, tlr_double, tls_cnt, num_cli,
                   spawn, cli_vehicle, neworexi, motionSim_carla,
                   packed_data_tl, pc_tls, pc_tlr, actors, scenario, sent,
                   spawn_requests, rx>>
    /\ UNCHANGED ext

\* The rest of the finally block, after sim_Running = False: the three
\* <socket>.shutdown(socket.SHUT_RDWR), in the order mb, tls, tlr, then
\* pygame.quit(); game_loop and main return and the process exits, its
\* daemon threads with it.  On an unconnected datagram socket shutdown
\* returns normally on some platforms and raises ENOTCONN (after marking the
\* socket shut down) on others, Linux among them; n is the number of
\* shutdown calls made, raised whether the last of them raised.
FinShutdown ==
    /\ pc_main = "done"
    /\ \E n \in 1..3, raised \in BOOLEAN :
          /\ (n < 3) => raised
          /\ sockets' = [s \in SocketNames |->
                            IF \/ s = "mb"
                               \/ (s = "tls" /\ n >= 2)
                               \/ (s = "tlr" /\ n >= 3)
                            THEN "shutdown" ELSE sockets[s]]
          /\ pc_main' = IF raised THEN "failed" ELSE "exited"
    /\ UNCHANGED <<sim_Running, tlr_socklen, tlr_double, tls_cnt, num_cli,
                   spawn, cli_vehicle, neworexi, motionSim_carla,
                   packed_data_tl, pc_tls, pc_tlr, actors, scenario, sent,
                   spawn_requests, rx>>
    /\ UNCHANGED <<pc_mb, packed_data_mb, dynamics, pc_dyn, tick, codec, pair, ex>>

\* game_loop from its first socket to the end of the process.  The main
\* loop is left through game_loop_finally (parse_events returning True, or
\* an exception raised in the loop).
game_loop ==
    \/ MainOpenMb \/ MainOpenTls \/ MainOpenTlr \/ MainBindError
    \/ MainSetupError \/ MainStart \/ MainTick \/ MainEvents
    \/ game_loop_finally \/ FinShutdown

\* tls_sock.sendto raises a socket error: nothing in tl_sender catches it,
\* so the thread ends
TlsSendError ==
    /\ ProcessRuns
    /\ pc_tls = "send"
    /\ pc_tls' = "dead"
    /\ UNCHANGED <<sim_Running, tlr_socklen, tlr_double, tls_cnt, num_cli,
                   spawn, cli_vehicle, neworexi, motionSim_carla,
                   packed_data_tl, pc_tlr, pc_main, actors, scenario, sent,
                   spawn_requests, rx>>
    /\ UNCHANGED ext

\* game_loop entered, nothing opened or started yet; one other session on
\* the multicast group.
SessionInit ==
    /\ Globals
    /\ MotionGlobals
    /\ scenario = "one"
    /\ pc_main = "open_mb"
    /\ pc_mb = "unstarted"
    /\ pc_tls = "unstarted"
    /\ pc_tlr = "unstarted"
    /\ sockets = [s \in SocketNames |-> "unopened"]
    /\ codec = CodecOff
    /\ pair = PairOff
    /\ ex = ExOff

SessionNext ==
    game_loop \/ mb_sender \/ tl_sender \/ TlsSendError \/ tl_receiver

\* The worker threads are scheduled fairly; nothing is assumed of game_loop.
SessionSpec ==
    /\ SessionInit
    /\ [][SessionNext]_vars
    /\ WF_vars(mb_sender)
    /\ WF_vars(tl_sender)
    /\ WF_vars(tl_receiver)

\* game_loop is scheduled fairly as well: it opens its sockets, starts the
\* threads, keeps ticking for as long as it is in its main loop, and
\* finishes its finally block.  Nothing obliges the user to quit, nor an
\* error to occur.
FairSessionSpec ==
    /\ SessionInit
    /\ [][SessionNext]_vars
    /\ WF_vars(mb_sender)
    /\ WF_vars(tl_sender)
    /\ WF_vars(tl_receiver)
    /\ WF_vars(MainOpenMb \/ MainOpenTls \/ MainOpenTlr \/ MainStart
               \/ MainTick \/ MainEvents \/ FinShutdown)

(***************************************************************************)
(* Two sessions on one multicast group.  Each session runs this program    *)
(* with its own GRP_ID and its own copy of the telemetry globals, held in  *)
(* pair[id]; both are in their main loops with tl_sender and tl_receiver   *)
(* started.  A datagram sent to the group is queued at every socket bound  *)
(* to it, the sender's own included.                                       *)
(***************************************************************************)
\* GRP_ID of the two sessions
PairIds == {1, 2}

Other(id) == CHOOSE o \in PairIds : o /= id

\* The pose each session's vehicle stands at.
LocalPose(id) == IF id = 1 THEN PoseA ELSE PoseB

\* Datagrams the receive buffer of tlr_sock holds; further ones are dropped.
MaxInbox == 2

\* carla_tl_double in the session whose GRP_ID is id
TelemetryOf(id, cnt, b_total, m) ==
    [carla_tl_double(cnt, b_total, m) EXCEPT ![1] = id]

\* The telemetry globals of the session whose GRP_ID is id, as the file
\* defines them, with what its socket holds and what it sent last.
PairSession(id) ==
    [pc_tls |-> "top", pc_tlr |-> "top", tls_cnt |-> 0,
     packed_data_tl |-> <<>>, tlr_socklen |-> 0, tlr_double |-> 0,
     num_cli |-> 0, neworexi |-> [i \in Slots |-> 0],
     cli_vehicle |-> [i \in Slots |-> 0], actors |-> <<>>,
     inbox |-> <<>>, last_sent |-> <<>>, heard |-> FALSE, rx |-> "none"]

PairInit ==
    /\ CoreInit
    /\ scenario = "one"
    /\ MotionInit
    /\ codec = CodecOff
    /\ pair = [id \in PairIds |-> PairSession(id)]
    /\ ex = ExOff

\* The socket's receive buffer after datagram d arrives.
Deliver(inbox, d) == IF Len(inbox) < MaxInbox THEN Append(inbox, d) ELSE inbox

\* tl_sender of session id: packed_data_tl = struct.pack(...)
PairPack(id) ==
    /\ pair[id].pc_tls = "top"
    /\ pair[id].tls_cnt < MaxSends
    /\ \E now \in Clocks :
          pair' = [pair EXCEPT
                     ![id].packed_data_tl =
                         Pack(TelemetryOf(id, pair[id].tls_cnt, Timestamp(now),
                                          LocalPose(id))),
                     ![id].pc_tls = "setlen"]
    /\ UNCHANGED <<core, motion, codec, ex>>

\* tlr_socklen = len(packed_data_tl)
PairSetLen(id) ==
    /\ pair[id].pc_tls = "setlen"
    /\ pair' = [pair EXCEPT
                  ![id].tlr_socklen = ByteLen(pair[id].packed_data_tl),
                  ![id].pc_tls = "setdbl"]
    /\ UNCHANGED <<core, motion, codec, ex>>

\* tlr_double = len(carla_tl_double)
PairSetDouble(id) ==
    /\ pair[id].pc_tls = "setdbl"
    /\ pair' = [pair EXCEPT
                  ![id].tlr_double = Len(pair[id].packed_data_tl),
                  ![id].pc_tls = "send"]
    /\ UNCHANGED <<core, motion, codec, ex>>

\* tls_sock.sendto(packed_data_tl, (MCAST_GRP, MCAST_PORT)): the datagram
\* reaches the receive socket of both sessions.
PairSend(id) ==
    /\ pair[id].pc_tls = "send"
    /\ LET d == pair[id].packed_data_tl IN
       pair' = [s \in PairIds |->
                  LET got == [pair[s] EXCEPT !.inbox = Deliver(pair[s].inbox, d)]
                  IN  IF s = id
                      THEN [got EXCEPT !.last_sent = d, !.pc_tls = "inc"]
                      ELSE got]
    /\ UNCHANGED <<core, motion, codec, ex>>

\* tls_cnt += 1 ; time.sleep(slp_snd)
PairInc(id) ==
    /\ pair[id].pc_tls = "inc"
    /\ pair' = [pair EXCEPT
                  ![id].tls_cnt = NextCount(pair[id].tls_cnt),
                  ![id].pc_tls = "top"]
    /\ UNCHANGED <<core, motion, codec, ex>>

\* tl_receiver of session id: if tlr_socklen != 0: is false, the loop spins
PairIdle(id) ==
    /\ pair[id].pc_tlr = "top"
    /\ pair[id].tlr_socklen = 0
    /\ pair' = [pair EXCEPT ![id].rx = "idle"]
    /\ UNCHANGED <<core, motion, codec, ex>>

\* recvfrom raises EAGAIN / EWOULDBLOCK: continue
PairWouldBlock(id) ==
    /\ pair[id].pc_tlr = "top"
    /\ pair[id].tlr_socklen /= 0
    /\ pair[id].inbox = <<>>
    /\ pair' = [pair EXCEPT ![id].rx = "eagain"]
    /\ UNCHANGED <<core, motion, codec, ex>>

\* lines 533-604 in session id (state st) once recvfrom has returned
\* datagram d.  sp is random.choice's pick, ok whether try_spawn_actor
\* returned an actor.
PairOnDatagram(st, id, d, sp, ok) ==
    LET data == recvfrom(d, st.tlr_socklen)
        st1  == [st EXCEPT !.inbox = Tail(st.inbox),
                           !.heard = st.heard \/ d[1] /= id]
    IN
    IF ~CanUnpack(data, st.tlr_double)
    THEN [st1 EXCEPT !.pc_tlr = "dead", !.rx = "undecodable"]
    ELSE IF data[1] = id
    THEN [st1 EXCEPT !.rx = "self"]
    ELSE LET r == Resolve(st.neworexi, st.num_cli, data[1]) IN
         IF r.raised
         THEN [st1 EXCEPT !.pc_tlr = "dead", !.rx = "full"]
         ELSE LET isNew   == r.newspawn = 1
                  handle  == IF ok THEN Len(st.actors) + 1 ELSE None
                  veh1    == IF isNew
                             THEN [st.cli_vehicle EXCEPT ![r.num_cli - 1] = handle]
                             ELSE st.cli_vehicle
                  actors1 == IF isNew /\ ok
                             THEN Append(st.actors,
                                         [blueprint |-> BlueprintNum(data[1]),
                                          transform |-> SpawnTransform(sp),
                                          alive |-> TRUE])
                             ELSE st.actors
                  target  == MoveTarget(veh1, r.cli_ind)
                  st2     == [st1 EXCEPT !.neworexi = r.neworexi,
                                         !.num_cli = r.num_cli,
                                         !.cli_vehicle = veh1]
              IN  IF target = None
                  THEN [st2 EXCEPT !.actors = actors1, !.pc_tlr = "dead",
                                   !.rx = "nohandle"]
                  ELSE [st2 EXCEPT
                          !.actors = [actors1 EXCEPT
                                        ![target].transform = MakeTransform(data)],
                          !.rx = "peer"]

\* recvfrom returns the oldest datagram in the socket's buffer
PairReceive(id) ==
    /\ pair[id].pc_tlr = "top"
    /\ pair[id].tlr_socklen /= 0
    /\ pair[id].inbox /= <<>>
    /\ \E sp \in udp_spawn_points, ok \in BOOLEAN :
          pair' = [pair EXCEPT
                     ![id] = PairOnDatagram(pair[id], id, Head(pair[id].inbox),
                                            sp, ok)]
    /\ UNCHANGED <<core, motion, codec, ex>>

PairNext ==
    \E id \in PairIds :
        \/ PairPack(id)
        \/ PairSetLen(id)
        \/ PairSetDouble(id)
        \/ PairSend(id)
        \/ PairInc(id)
        \/ PairIdle(id)
        \/ PairWouldBlock(id)
        \/ PairReceive(id)

PairSpec == PairInit /\ [][PairNext]_vars

(***************************************************************************)
(* The finally block of game_loop statement by statement, with the         *)
(* telemetry threads still running: the cleanup loop, then                 *)
(* sim_Running = False.                                                    *)
(***************************************************************************)
\* finally: ... for i in range(num_cli): cli_vehicle[i].destroy()
\* entered from the main loop on quit or on an exception
FinDestroy ==
    /\ UNCHANGED ext
    /\ pc_main \in {"loop", "events"}
    /\ LET k == DestroyedUpTo(cli_vehicle, num_cli, 0)
           gone == {cli_vehicle[i] : i \in 0..(k - 1)}
       IN  /\ actors' = [h \in DOMAIN actors |->
                           IF h \in gone THEN [actors[h] EXCEPT !.alive = FALSE]
                           ELSE actors[h]]
           /\ pc_main' = IF k < num_cli THEN "failed" ELSE "cleaned"
    /\ UNCHANGED <<sim_Running, tlr_socklen, tlr_double, tls_cnt, num_cli,
                   spawn, cli_vehicle, neworexi, motionSim_carla,
                   packed_data_tl, pc_tls, pc_tlr, scenario, sent,
                   spawn_requests, rx>>

\* del client ; global sim_Running ; sim_Running = False
FinSignal ==
    /\ UNCHANGED ext
    /\ pc_main = "cleaned"
    /\ sim_Running' = FALSE
    /\ pc_main' = "done"
    /\ UNCHANGED <<tlr_socklen, tlr_double, tls_cnt, num_cli, spawn,
                   cli_vehicle, neworexi, motionSim_carla, packed_data_tl,
                   pc_tls, pc_tlr, actors, scenario, sent, spawn_requests, rx>>

\* The main loop running, the threads started, one other session on the
\* multicast group.
CleanupInit ==
    /\ CoreInit
    /\ scenario = "one"
    /\ MotionInit
    /\ codec = CodecOff
    /\ pair = PairOff
    /\ ex = ExOff

CleanupNext == tl_sender \/ tl_receiver \/ FinDestroy \/ FinSignal

CleanupSpec == CleanupInit /\ [][CleanupNext]_vars

(***************************************************************************)
(* The telemetry threads of a session whose multicast group carries a      *)
(* session for every identifier the blueprint chain can meet.              *)
(***************************************************************************)
ClassInit ==
    /\ CoreInit
    /\ scenario = "classes"
    /\ MotionInit
    /\ codec = CodecOff
    /\ pair = PairOff
    /\ ex = ExOff

ClassSpec == ClassInit /\ [][Next]_vars

(***************************************************************************)
(* examples/sendsock_threads.py: main starts mb_sender, tl_sender and      *)
(* tl_receiver as threads and joins them.  The classes motionSim_carla and *)
(* telemetry_carla only annotate their fields, so an attribute exists once *)
(* a thread has assigned it (None below: no such attribute yet).  ex holds *)
(* the process: the globals tlr_socklen and tlr_double, the attributes of  *)
(* the two classes, and each thread's locals and position.                 *)
(***************************************************************************)
\* GRP_ID of the example
ExampleGrpId == 5551

\* The iterations each sender of the example makes before its end time
\* (sim_dur seconds after its start) has passed.
ExampleRounds == 1

\* The values mb_sender adds mb_cnt to, in the order it assigns the
\* attributes: posX posY posZ, velX .. accZ, rollPos pitchPos yawPos,
\* rollRate .. yawAcc.
ExampleBase ==
    <<2112, 2113, 2114, 666, 667, 668, 5150, 5151, 5152,
      7112, 7113, 7114, 1666, 1667, 1668, 8150, 8151, 8152>>

\* The attributes tl_sender reads, in the order it reads them: posX posY
\* posZ rollPos pitchPos yawPos.
ExamplePose == <<1, 2, 3, 10, 11, 12>>

\* The threads started, each about to test its loop condition for the
\* first time.
ExampleStart ==
    [ExOff EXCEPT !.pc_mb = "top", !.pc_tls = "top", !.pc_tlr = "top",
                  !.attrs = [i \in 1..Len(ExampleBase) |-> None],
                  !.telemetry = [i \in 1..9 |-> None]]

\* mb_sender: while time.time() < mb_end_time: print(...)
ExMbTop ==
    /\ ex.pc_mb = "top"
    /\ ex.mb_cnt < ExampleRounds
    /\ ex' = [ex EXCEPT !.pc_mb = "assign", !.mb_i = 1]
    /\ UNCHANGED <<core, motion, codec, pair>>

\* the loop condition false: mb_sock.close(), the thread returns
ExMbExit ==
    /\ ex.pc_mb = "top"
    /\ ex' = [ex EXCEPT !.pc_mb = "done"]
    /\ UNCHANGED <<core, motion, codec, pair>>

\* motionSim_carla.<attribute> = <base> + mb_cnt, one statement at a time
ExMbAssign ==
    /\ ex.pc_mb = "assign"
    /\ ex' = [ex EXCEPT
                !.attrs[ex.mb_i] = ExampleBase[ex.mb_i] + ex.mb_cnt,
                !.mb_i = IF ex.mb_i = Len(ExampleBase) THEN 0 ELSE ex.mb_i + 1,
                !.pc_mb = IF ex.mb_i = Len(ExampleBase) THEN "pack" ELSE "assign"]
    /\ UNCHANGED <<core, motion, codec, pair>>

\* carla_vd_floats = np.array([var_mb.posX, ..., var_mb.yawAcc],
\* dtype=np.float32) ; packed_data_mb = struct.pack(...)
ExMbPack ==
    /\ ex.pc_mb = "pack"
    /\ ex' = [ex EXCEPT !.packed_data_mb = Pack(carla_vd_floats(ex.attrs)),
                        !.pc_mb = "send"]
    /\ UNCHANGED <<core, motion, codec, pair>>

\* mb_sock.sendto(packed_data_mb, (UDP_IP, UDP_PORT))
ExMbSend ==
    /\ ex.pc_mb = "send"
    /\ ex' = [ex EXCEPT !.mb_out = ex.packed_data_mb, !.pc_mb = "inc"]
    /\ UNCHANGED <<core, motion, codec, pair>>

\* time.sleep(slp_mb) ; mb_cnt += 1
ExMbInc ==
    /\ ex.pc_mb = "inc"
    /\ ex' = [ex EXCEPT !.mb_cnt = ex.mb_cnt + 1, !.pc_mb = "top"]
    /\ UNCHANGED <<core, motion, codec, pair>>

example_mb_sender ==
    ExMbTop \/ ExMbExit \/ ExMbAssign \/ ExMbPack \/ ExMbSend \/ ExMbInc

\* tl_sender: while time.time() < tls_end_time: ... b_total = ... ;
\* telemetry_carla.cid = GRP_ID ; .no = tls_cnt ; .totmcs = b_total
ExTlsTop ==
    /\ ex.pc_tls = "top"
    /\ ex.tls_cnt < ExampleRounds
    /\ \E now \in Clocks :
          ex' = [ex EXCEPT !.telemetry[1] = ExampleGrpId,
                           !.telemetry[2] = ex.tls_cnt,
                           !.telemetry[3] = Timestamp(now),
                           !.tl_i = 1,
                           !.pc_tls = "read"]
    /\ UNCHANGED <<core, motion, codec, pair>>

\* the loop condition false: tls_sock.close(), the thread returns
ExTlsExit ==
    /\ ex.pc_tls = "top"
    /\ ex' = [ex EXCEPT !.pc_tls = "done"]
    /\ UNCHANGED <<core, motion, codec, pair>>

\* telemetry_carla.posX = motionSim_carla.posX, and the five statements
\* after it, one at a time.  Reading an attribute nobody has assigned
\* raises AttributeError, which ends the thread.
ExTlsRead ==
    /\ ex.pc_tls = "read"
    /\ LET a == ExamplePose[ex.tl_i] IN
       ex' = IF ex.attrs[a] = None
             THEN [ex EXCEPT !.pc_tls = "dead"]
             ELSE [ex EXCEPT
                     !.telemetry[3 + ex.tl_i] = ex.attrs[a],
                     !.tl_i = IF ex.tl_i = Len(ExamplePose) THEN 0
                              ELSE ex.tl_i + 1,
                     !.pc_tls = IF ex.tl_i = Len(ExamplePose) THEN "pack"
                                ELSE "read"]
    /\ UNCHANGED <<core, motion, codec, pair>>

\* carla_tl_double = np.array([var_tl.cid, ..., var_tl.rotZ]) ;
\* packed_data_tl = struct.pack(...)
ExTlsPack ==
    /\ ex.pc_tls = "pack"
    /\ ex' = [ex EXCEPT !.packed_data_tl = Pack(ex.telemetry),
                        !.pc_tls = "setlen"]
    /\ UNCHANGED <<core, motion, codec, pair>>

\* tlr_socklen = len(packed_data_tl)
ExTlsSetLen ==
    /\ ex.pc_tls = "setlen"
    /\ ex' = [ex EXCEPT !.tlr_socklen = ByteLen(ex.packed_data_tl),
                        !.pc_tls = "setdbl"]
    /\ UNCHANGED <<core, motion, codec, pair>>

\* tlr_double = len(carla_tl_double)
ExTlsSetDouble ==
    /\ ex.pc_tls = "setdbl"
    /\ ex' = [ex EXCEPT !.tlr_double = Len(ex.packed_data_tl),
                        !.pc_tls = "send"]
    /\ UNCHANGED <<core, motion, codec, pair>>

\* tls_sock.sendto(packed_data_tl, (MCAST_GRP, MCAST_PORT))
ExTlsSend ==
    /\ ex.pc_tls = "send"
    /\ ex' = [ex EXCEPT !.tl_out = ex.packed_data_tl, !.pc_tls = "inc"]
    /\ UNCHANGED <<core, motion, codec, pair>>

\* time.sleep(slp_tls) ; tls_cnt += 1
ExTlsInc ==
    /\ ex.pc_tls = "inc"
    /\ ex' = [ex EXCEPT !.tls_cnt = NextCount(ex.tls_cnt), !.pc_tls = "top"]
    /\ UNCHANGED <<core, motion, codec, pair>>

example_tl_sender ==
    ExTlsTop \/ ExTlsExit \/ ExTlsRead \/ ExTlsPack \/ ExTlsSetLen
    \/ ExTlsSetDouble \/ ExTlsSend \/ ExTlsInc

\* tl_receiver: if tele_recv == 1 and tlr_socklen != 0: is false
ExTlrIdle ==
    /\ ex.pc_tlr = "top"
    /\ ex.tlr_socklen = 0
    /\ ex' = ex
    /\ UNCHANGED <<core, motion, codec, pair>>

\* recvfrom waits rec_to seconds and raises socket.timeout: caught
ExTlrTimeout ==
    /\ ex.pc_tlr = "top"
    /\ ex.tlr_socklen /= 0
    /\ ex' = ex
    /\ UNCHANGED <<core, motion, codec, pair>>

\* The datagrams on the multicast group: the example's own last one, and
\* that of a session of test.py.
ExampleDatagrams ==
    {PeerDatagram(GRP_ID, PoseA)}
    \cup (IF ex.tl_out = <<>> THEN {} ELSE {ex.tl_out})

\* recvfrom returns a datagram: struct.unpack, then only prints and counts
\* (tlr_cnt, used in the prints alone).  A struct.error is not caught and
\* ends the thread.
ExTlrReceive ==
    /\ ex.pc_tlr = "top"
    /\ ex.tlr_socklen /= 0
    /\ \E d \in ExampleDatagrams :
          LET data == recvfrom(d, ex.tlr_socklen) IN
          ex' = IF ~CanUnpack(data, ex.tlr_double)
                THEN [ex EXCEPT !.pc_tlr = "dead"]
                ELSE ex
    /\ UNCHANGED <<core, motion, codec, pair>>

\* the loop condition false: tlr_sock.close(), the thread returns
ExTlrExit ==
    /\ ex.pc_tlr = "top"
    /\ ex' = [ex EXCEPT !.pc_tlr = "done"]
    /\ UNCHANGED <<core, motion, codec, pair>>

example_tl_receiver == ExTlrIdle \/ ExTlrTimeout \/ ExTlrReceive \/ ExTlrExit

(***************************************************************************)
(* The publishers of the repository's two programs.  A process runs        *)
(* either test.py (scenario "publish": its main loop running, mb_sender    *)
(* and tl_sender started, the pose static) or the example (scenario        *)
(* "example").                                                             *)
(***************************************************************************)
ProgramsInit ==
    \/ /\ CoreInit
       /\ scenario = "publish"
       /\ MotionInit
       /\ codec = CodecOff
       /\ pair = PairOff
       /\ ex = ExOff
    \/ /\ Globals
       /\ MotionGlobals
       /\ scenario = "example"
       /\ pc_main = "absent"
       /\ pc_mb = "absent"
       /\ pc_tls = "absent"
       /\ pc_tlr = "absent"
       /\ sockets = [s \in SocketNames |-> "unopened"]
       /\ codec = CodecOff
       /\ pair = PairOff
       /\ ex = ExampleStart

ProgramsNext ==
    \/ mb_sender \/ tl_sender \/ game_loop_finally
    \/ example_mb_sender \/ example_tl_sender \/ example_tl_receiver

ProgramsSpec == ProgramsInit /\ [][ProgramsNext]_vars

(***************************************************************************)
(* Properties.                                                             *)
(***************************************************************************)
\* A loop iteration of the tl_receiver thread: every tl_sender step moves
\* pc_tls, the step of game_loop moves pc_main, and the receiver's only
\* other step, leaving the loop, needs sim_Running = FALSE.
TlrStep == pc_tls' = pc_tls /\ pc_main' = pc_main /\ sim_Running = TRUE

\* The iteration decoded a datagram (unpack succeeded).
Decoded(r) == r.kind \in {"self", "peer", "nohandle", "full"}

\* The iteration decoded a datagram of another session.
DecodedForeign(r) == r.kind \in {"peer", "nohandle", "full"}

\* The slot of identifier id in the table (-1 if none).
SlotOf(tab, n, id) ==
    IF \E i \in 0..(n - 1) : tab[i] = id
    THEN CHOOSE i \in 0..(n - 1) : tab[i] = id ELSE -1

\* C1: an iteration of tl_receiver that decodes a datagram whose identifier
\* is GRP_ID leaves num_cli, neworexi, spawn and cli_vehicle unchanged, calls
\* try_spawn_actor for nothing and set_transform on nothing, whatever was
\* received before.
C1_SelfFilter ==
    [][ (TlrStep /\ Decoded(rx') /\ rx'.cars[1] = GRP_ID)
        => /\ table' = table
           /\ spawn_requests' = spawn_requests
           /\ actors' = actors
           /\ rx'.moved = <<>>
           /\ rx'.newspawn = 0 ]_vars

\* C1 witness: an own packet handled after two peers were registered.
C1_Witness == rx.kind = "self" /\ num_cli >= 2 /\ pc_tlr = "top"

\* C2: a decoded foreign packet whose identifier is not in the table is
\* resolved as new (newspawn = 1) into slot num_cli, and one whose
\* identifier is in the table is resolved as existing (newspawn = 0) with
\* the slot it already has.
C2_PeerStability ==
    [][ (TlrStep /\ DecodedForeign(rx'))
        => LET A == rx'.cars[1]
               k == SlotOf(neworexi, num_cli, A)
           IN  IF k = -1
               THEN /\ rx'.newspawn = 1
                    /\ rx'.cli_ind = num_cli
                    /\ SlotOf(neworexi', num_cli', A) = num_cli
               ELSE /\ rx'.newspawn = 0
                    /\ rx'.cli_ind = k
                    /\ SlotOf(neworexi', num_cli', A) = k ]_vars

\* C3: the entries neworexi[0..num_cli-1] are pairwise distinct and none of
\* them is GRP_ID.
C3_Bijection ==
    /\ \A i, j \in 0..(num_cli - 1) : i /= j => neworexi[i] /= neworexi[j]
    /\ \A i \in 0..(num_cli - 1) : neworexi[i] /= GRP_ID

\* C3 witness: three peers registered, and a packet of the first one handled
\* again afterwards.
C3_Witness ==
    /\ num_cli >= 3
    /\ rx.kind = "peer" /\ rx.newspawn = 0 /\ rx.cli_ind = 0

\* C4: num_cli never decreases and an assigned entry neworexi[i],
\* i < num_cli, never changes, in any step of any thread.
C4_GrowOnly ==
    [][ /\ num_cli' >= num_cli
        /\ \A i \in 0..(num_cli - 1) : neworexi'[i] = neworexi[i] ]_vars

\* C4 witness: the table was filled completely.
C4_Witness == num_cli = Capacity

\* C5: a packet with a new identifier arriving when the table holds
\* Capacity identifiers does not end the receiver thread.
C5_FullTableHandled ==
    [][ (TlrStep /\ DecodedForeign(rx') /\ num_cli = Capacity
         /\ SlotOf(neworexi, num_cli, rx'.cars[1]) = -1)
        => (pc_tlr' = "top" /\ table' = table) ]_vars

\* C6: the n-th datagram tl_sender sends carries sequence number n-1, and
\* no step of any thread resets or decreases tls_cnt.
C6_SequenceMonotonic ==
    /\ [](\A n \in 1..Len(sent) : sent[n] = n - 1)
    /\ [][tls_cnt' >= tls_cnt]_vars

\* C6 witness: two datagrams were sent and the counter incremented again.
C6_Witness == Len(sent) >= 2 /\ tls_cnt >= 2

\* C7: a received datagram whose length is not the telemetry length is not
\* decoded and leaves the peer table and every proxy transform unchanged.
C7_MalformedIgnored ==
    [][ (TlrStep /\ rx'.len /= 0 /\ rx'.len /= tlr_socklen)
        => (~Decoded(rx') /\ table' = table /\ actors' = actors) ]_vars

\* C8: once the telemetry length and field count are published, decoding a
\* received datagram of another length does not end the receive loop.
C8_MalformedSurvived ==
    [][ (TlrStep /\ tlr_socklen = DoubleSize * tlr_double /\ rx'.len /= 0
         /\ rx'.len /= tlr_socklen)
        => ~(rx'.kind = "undecodable" /\ pc_tlr' = "dead") ]_vars

\* C9: try_spawn_actor has been called exactly once for each registered
\* identifier, in registration order: spawn_requests lists
\* neworexi[0..num_cli-1], so there are num_cli requests and none is repeated.
C9_SpawnOncePerPeer ==
    /\ Len(spawn_requests) = num_cli
    /\ \A i \in 1..Len(spawn_requests) : spawn_requests[i] = neworexi[i - 1]
    /\ \A i, j \in 1..Len(spawn_requests) :
          i /= j => spawn_requests[i] /= spawn_requests[j]

\* C9 witness: two peers registered, then a packet of an existing peer.
C9_Witness ==
    /\ Len(spawn_requests) >= 2
    /\ rx.kind = "peer" /\ rx.newspawn = 0

\* C10: every decoded foreign packet ends in exactly one set_transform, on
\* the proxy stored in the slot registered for the packet's identifier.
C10_EveryPacketMoves ==
    DecodedForeign(rx)
    => /\ Len(rx.moved) = 1
       /\ rx.cli_ind \in 0..(num_cli - 1)
       /\ neworexi[rx.cli_ind] = rx.cars[1]
       /\ rx.moved[1] = cli_vehicle[rx.cli_ind]
       /\ actors[rx.moved[1]].transform = MakeTransform(rx.cars)

\* C12: a receive attempt that finds no data (EAGAIN / EWOULDBLOCK) leaves
\* the peer table and the proxies unchanged, spawns and moves nothing, and
\* leaves the receiver at the top of its loop, ready for the next attempt,
\* however many such attempts came before.
C12_TransientReceive ==
    [][ (TlrStep /\ rx'.kind = "eagain")
        => /\ table' = table
           /\ actors' = actors
           /\ spawn_requests' = spawn_requests
           /\ rx'.moved = <<>>
           /\ pc_tlr' = "top" ]_vars

\* C12 witness: an empty receive after a peer was registered, the receiver
\* still in its loop.
C12_Witness == rx.kind = "eagain" /\ num_cli >= 1 /\ pc_tlr = "top"

\* C13: a receive attempt that fails with a socket error other than
\* would-block ends the receive loop: the receiver is not back at the top
\* of its loop, about to call recvfrom again.
C13_FatalReceiveEndsLoop ==
    [][ (TlrStep /\ rx'.kind = "oserror") => pc_tlr' /= "top" ]_vars

\* C18: every iteration of the receiver's loop makes a receive attempt,
\* whether or not tl_sender of the same session has packed or sent anything.
C18_ReceiverIndependent ==
    [][ TlrStep => rx'.kind /= "idle" ]_vars

\* C17: a telemetry record (9 doubles) or a motion record (19 float32
\* values) a publisher built, packed and then unpacked with the same layout,
\* comes back with the same number of fields, each identical to the one
\* packed, in the same order; the packed length is 8, or 4, bytes per field.
C17_RoundTrip ==
    codec.pc = "unpacked"
    => /\ codec.out = codec.fields
       /\ Len(codec.wire) =
             (IF codec.kind = "tl" THEN DoubleSize ELSE FloatSize)
             * Len(codec.fields)

\* C17 witness: a telemetry record with a sequence number, a late timestamp,
\* a negative and a 30-bit field went through pack and unpack.
C17_Witness ==
    /\ codec.pc = "unpacked" /\ codec.kind = "tl"
    /\ Len(codec.out) = 9
    /\ codec.fields[2] = 1
    /\ codec.fields[3] = 2147483647
    /\ codec.fields[4] = 1073741823
    /\ codec.fields[6] = -200

\* The values of a sequence come from one tick: no two of them were written
\* by different ticks (0 is the class default, written by no tick).
OneTick(a) ==
    \A i, j \in 1..Len(a) : (a[i] /= 0 /\ a[j] /= 0) => a[i] = a[j]

\* C19: the pose fields of every datagram tl_sender has packed for sending,
\* and the fields of every datagram mb_sender has packed for sending, were
\* all written by one and the same tick.
C19_SnapshotConsistent ==
    /\ pc_tls \in {"setlen", "setdbl", "send"}
          => OneTick(SubSeq(packed_data_tl, 4, 9))
    /\ pc_mb = "send" => OneTick(packed_data_mb)

\* A worker thread has ended on an uncaught exception.
AnyWorkerDead == pc_mb = "dead" \/ pc_tls = "dead" \/ pc_tlr = "dead"

\* A worker thread is not running its loop (any more).
Stopped(pc) == pc \in {"unstarted", "done", "dead"}

\* The process has ended, and its daemon threads with it.
ProcessEnded == pc_main \in {"exited", "failed", "crashed"}

\* C14: once a worker thread has ended on an error, the session eventually
\* has all three workers stopped and all three sockets shut down (or the
\* process has ended).
C14_FatalErrorPropagates ==
    AnyWorkerDead
    ~> \/ ProcessEnded
       \/ /\ Stopped(pc_mb) /\ Stopped(pc_tls) /\ Stopped(pc_tlr)
          /\ \A s \in SocketNames : sockets[s] = "shutdown"

C16_SocketsClosedAtExit ==
    ProcessEnded => \A s \in SocketNames : sockets[s] /= "open"

\* C20: the step in which mb_sender ends on a send error changes nothing of
\* tl_sender, tl_receiver or game_loop, nor the peer table, the sequence
\* counter, sim_Running or the sockets; and with mb_sender dead the main
\* loop can still tick, tl_sender can still take its next step and
\* tl_receiver can still receive.
C20_PublisherIsolation ==
    /\ [][ (pc_mb /= "dead" /\ pc_mb' = "dead")
           => /\ pc_tls' = pc_tls /\ pc_tlr' = pc_tlr /\ pc_main' = pc_main
              /\ table' = table /\ actors' = actors
              /\ tls_cnt' = tls_cnt /\ sent' = sent
              /\ sim_Running' = sim_Running /\ sockets' = sockets ]_vars
    /\ [] ( (pc_mb = "dead" /\ pc_main \in {"loop", "events"})
            => /\ ENABLED (MainTick \/ MainEvents)
               /\ (pc_tls = "top" /\ tls_cnt < MaxSends) => ENABLED TlsPack
               /\ pc_tls = "send" => ENABLED TlsSend
               /\ (pc_tlr = "top" /\ tlr_socklen /= 0) => ENABLED TlrWellFormed )

\* C20 witness: mb_sender is dead while the main loop, tl_sender (which has
\* sent) and tl_receiver (which has registered a peer) are in their loops.
C20_Witness ==
    /\ pc_mb = "dead" /\ pc_main = "loop" /\ sim_Running = TRUE
    /\ pc_tls = "top" /\ Len(sent) >= 1
    /\ pc_tlr = "top" /\ num_cli >= 1

\* C11: with two sessions whose identifiers are 1 and 2, each publishing
\* telemetry of its local pose, once each session has received at least one
\* packet from the other, each session has num_cli = 1 with neworexi[0] the
\* other session's identifier, and the proxy in slot 0 stands at the
\* transform made from the other session's last sent packet.
C11_EndToEnd ==
    (\A id \in PairIds : pair[id].heard) =>
        \A id \in PairIds :
            LET st == pair[id] IN
            /\ st.num_cli = 1
            /\ st.neworexi[0] = Other(id)
            /\ st.cli_vehicle[0] \in DOMAIN st.actors
            /\ st.actors[st.cli_vehicle[0]].transform
                   = MakeTransform(pair[Other(id)].last_sent)

\* C26: whenever the receiver has received a datagram and goes on to decode
\* it, the shared field count tlr_double is 9 and the shared byte length
\* tlr_socklen is 8 * tlr_double: the receiver never works with the length
\* already set while the field count is still 0.
C26_DecodeFieldCount ==
    [][ (TlrStep /\ rx'.kind \notin {"idle", "eagain", "oserror"})
        => (tlr_double = 9 /\ tlr_socklen = DoubleSize * tlr_double) ]_vars

\* C27: every slot i < num_cli holds the handle of a spawned proxy in
\* cli_vehicle[i], never the placeholder 0 and never None.
C27_ProxyHandles ==
    \A i \in 0..(num_cli - 1) :
        /\ cli_vehicle[i] /= 0
        /\ cli_vehicle[i] /= None
        /\ cli_vehicle[i] \in DOMAIN actors

\* C23: tlr_socklen is 0 until tl_sender has packed its first record and is
\* the packed length from then on, never changing once set; the receiver
\* makes no receive attempt while it is 0; and every receive asks for
\* exactly that length: a datagram at least that long is cut to it and
\* decoded, a shorter one is not decoded.
C23_LengthPublication ==
    /\ [](tlr_socklen = 0
          \/ (packed_data_tl /= <<>> /\ tlr_socklen = ByteLen(packed_data_tl)))
    /\ [][ tlr_socklen /= 0 => tlr_socklen' = tlr_socklen ]_vars
    /\ [][ (TlrStep /\ rx'.kind /= "idle") => tlr_socklen /= 0 ]_vars
    /\ [][ (TlrStep /\ rx'.len /= 0 /\ tlr_double = 9)
           => (Decoded(rx') <=> rx'.len >= tlr_socklen) ]_vars

\* C23 witness: a datagram longer than the recorded length was received and
\* decoded as a peer's, after tl_sender recorded the length a second time.
C23_Witness ==
    /\ rx.kind = "peer" /\ rx.len > tlr_socklen /\ tlr_socklen /= 0
    /\ tls_cnt >= 1 /\ pc_tls = "send"

\* C24: after every received packet of a registered peer, whatever its
\* sequence number and whatever was received before, that peer's proxy
\* stands at the transform made from this packet, and the proxies of the
\* other registered peers stand where their own last packets put them.
C24_LastArrivalWins ==
    [][ (TlrStep /\ DecodedForeign(rx')
         /\ SlotOf(neworexi', num_cli', rx'.cars[1]) /= -1)
        => LET k == SlotOf(neworexi', num_cli', rx'.cars[1]) IN
           /\ cli_vehicle'[k] \in DOMAIN actors'
           /\ actors'[cli_vehicle'[k]].transform = MakeTransform(rx'.cars)
           /\ \A j \in 0..(num_cli - 1) :
                 (j /= k /\ cli_vehicle[j] \in DOMAIN actors)
                 => /\ cli_vehicle'[j] = cli_vehicle[j]
                    /\ actors'[cli_vehicle[j]].transform
                           = actors[cli_vehicle[j]].transform ]_vars

\* C29: when game_loop has ended, by returning or with an exception, after
\* it started the worker threads, sim_Running has been set to False.
C29_SignalRaised ==
    (pc_main \in {"exited", "failed"} /\ pc_tlr /= "unstarted")
    => sim_Running = FALSE

\* C28: once the finally block has raised the shutdown signal and the
\* receiver has stopped, every proxy the receiver spawned has been
\* destroyed; and after the cleanup loop has run, the receiver requests no
\* further spawn, adds no proxy, and calls set_transform on no destroyed
\* proxy.
C28_CleanupComplete ==
    /\ []((pc_main = "done" /\ pc_tlr \in {"done", "dead"})
          => \A h \in DOMAIN actors : ~actors[h].alive)
    /\ [][ (pc_main = "cleaned" \/ pc_main = "done")
           => /\ spawn_requests' = spawn_requests
              /\ Len(actors') = Len(actors)
              /\ (rx' /= rx
                  => \A i \in 1..Len(rx'.moved) :
                        actors[rx'.moved[i]].alive) ]_vars

\* C22: when a new peer is registered, try_spawn_actor is requested for it
\* with the blueprint index its identifier has in the table 666 -> 0,
\* 5150 -> 1, 143 -> 2, 2121 -> 3, 1123 -> 4, and with index 0 for any other
\* identifier; in that fallback case too the spawn is requested and the
\* peer is registered.
C22_SpawnClass ==
    [][ (TlrStep /\ DecodedForeign(rx') /\ rx'.newspawn = 1)
        => LET id == rx'.cars[1]
               class == IF id = 666 THEN 0
                        ELSE IF id = 5150 THEN 1
                        ELSE IF id = 143 THEN 2
                        ELSE IF id = 2121 THEN 3
                        ELSE IF id = 1123 THEN 4
                        ELSE 0
           IN  /\ spawn_requests' = Append(spawn_requests, id)
               /\ num_cli' = num_cli + 1
               /\ neworexi'[num_cli] = id
               /\ (Len(actors') > Len(actors)
                   => actors'[Len(actors')].blueprint = class) ]_vars

\* C22 witness: the peer with an identifier outside the table was
\* registered and spawned with blueprint 0, after the peers 143 and 1123
\* got blueprints 2 and 4.
C22_Witness ==
    /\ rx.kind = "peer" /\ rx.newspawn = 1 /\ rx.cars[1] = 7001
    /\ neworexi[num_cli - 1] = 7001
    /\ actors[rx.moved[1]].blueprint = 0
    /\ \E h \in DOMAIN actors : actors[h].blueprint = 2
    /\ \E h \in DOMAIN actors : actors[h].blueprint = 4

\* C25 as stated: the timestamp written into every TelemetryRecord, by
\* test.py and by the example, is a microsecond count in [0, 60,000,000),
\* i.e. it wraps every calendar minute.
C25_WrapsEveryMinute ==
    /\ (packed_data_tl /= <<>>
        => (packed_data_tl[3][1] \in 0..59
            /\ packed_data_tl[3][2] \in 0..999999))
    /\ (ex.packed_data_tl /= <<>>
        => (ex.packed_data_tl[3][1] \in 0..59
            /\ ex.packed_data_tl[3][2] \in 0..999999))

\* C25 amended: the timestamp written into every TelemetryRecord, by
\* test.py and by the example, is a microsecond count in
\* [0, 3,600,000,000) computed from the local clock's minute, second and
\* microsecond at send time, i.e. it wraps every calendar hour.  The count
\* is millions * 10^6 + rest with millions below 3600 and rest below 10^6,
\* and it is the one of some clock reading.
C25_WrapsEveryHour ==
    /\ (packed_data_tl /= <<>>
        => (/\ packed_data_tl[3][1] \in 0..3599
            /\ packed_data_tl[3][2] \in 0..999999
            /\ \E now \in Clocks :
                  /\ packed_data_tl[3][1] = 60 * now[1] + now[2]
                  /\ packed_data_tl[3][2] = now[3]))
    /\ (ex.packed_data_tl /= <<>>
        => (/\ ex.packed_data_tl[3][1] \in 0..3599
            /\ ex.packed_data_tl[3][2] \in 0..999999
            /\ \E now \in Clocks :
                  /\ ex.packed_data_tl[3][1] = 60 * now[1] + now[2]
                  /\ ex.packed_data_tl[3][2] = now[3]))

\* C25 witness: the example has sent a record stamped at the last instant
\* of an hour, 3,599,999,999 microseconds.
C25_Witness ==
    /\ scenario = "example"
    /\ ex.tl_out /= <<>>
    /\ ex.tl_out[3] = <<3599, 999999>>

\* C21: every datagram a Motion Publisher sends (mb_sender of test.py and
\* of the example) encodes exactly 19 four-byte floats, 76 bytes, and every
\* datagram a Telemetry Publisher sends (tl_sender of either) encodes
\* exactly 9 eight-byte doubles, 72 bytes, in the order identifier,
\* sequence, timestamp, position x/y/z, rotation x/y/z.
C21_PayloadSizes ==
    /\ (pc_mb = "send"
        => (/\ Len(packed_data_mb) = 19
            /\ FloatSize * Len(packed_data_mb) = 76))
    /\ (pc_tls = "send"
        => (/\ Len(packed_data_tl) = 9
            /\ ByteLen(packed_data_tl) = 72
            /\ packed_data_tl[1] = GRP_ID
            /\ packed_data_tl[2] = tls_cnt
            /\ \E now \in Clocks : packed_data_tl[3] = Timestamp(now)
            /\ \A i \in 1..6 : packed_data_tl[3 + i] = motionSim_carla[i]))
    /\ (ex.pc_mb = "send"
        => (/\ Len(ex.packed_data_mb) = 19
            /\ FloatSize * Len(ex.packed_data_mb) = 76))
    /\ (ex.pc_tls = "send"
        => (/\ Len(ex.packed_data_tl) = 9
            /\ ByteLen(ex.packed_data_tl) = 72
            /\ ex.packed_data_tl[1] = ExampleGrpId
            /\ ex.packed_data_tl[2] = ex.tls_cnt
            /\ \E now \in Clocks : ex.packed_data_tl[3] = Timestamp(now)
            /\ \A i \in 1..6 :
                  \E c \in 0..ExampleRounds :
                     ex.packed_data_tl[3 + i]
                        = ExampleBase[ExamplePose[i]] + c))

\* C30: in the example, in every interleaving of the three threads,
\* tl_sender never reads a pose attribute of motionSim_carla that mb_sender
\* has not assigned yet: it is never ended by such a read, and every
\* record it packs holds assigned pose values.
C30_PoseAssignedBeforeRead ==
    /\ ex.pc_tls /= "dead"
    /\ (ex.packed_data_tl /= <<>>
        => \A i \in 1..Len(ExamplePose) : ex.packed_data_tl[3 + i] /= None)

====
